---- MODULE Spec2Model ----
(***************************************************************************)
(* Solace: alert ingestion, deduplication, silence matching, correlation   *)
(* and notification dispatch, as a state machine over the relational store *)
(* and the request handlers of the FastAPI backend.                        *)
(*                                                                         *)
(* Every request runs in its own database session (database.get_db) under  *)
(* the store's READ COMMITTED isolation: a session sees committed rows and *)
(* its own flushed rows; an UPDATE of a row another session has updated    *)
(* and not yet committed waits for that session to end.  Rows carry a      *)
(* field tx: 0 for committed rows, r for rows session r has inserted and   *)
(* not yet committed.  Uncommitted UPDATEs of committed rows are kept per  *)
(* session (updA, updI) and applied at commit.                             *)
(*                                                                         *)
(* Four specifications share the actions:                                  *)
(*   Spec       the webhook route end to end, with the operator requests   *)
(*              on alerts and silence windows;                             *)
(*   SpecCore   the functions of the pipeline called one request at a      *)
(*              time by a caller that commits when correlate_alert has     *)
(*              returned, with the operator requests on alerts and         *)
(*              incidents;                                                 *)
(*   SpecRace   the same functions called by two concurrent sessions;      *)
(*   SpecNotify dispatch_notifications called by concurrent tasks for the  *)
(*              incidents the pipeline has stored.                         *)
(***************************************************************************)
EXTENDS Integers, Sequences, FiniteSets, TLC

\* ------------------------------------------------------------------ bounds
MaxTicks == 3
MaxCalls == 2
MaxRaceCalls == 3
MaxOps == 2
MaxSilences == 1
MaxDispatches == 2
MaxClients == 3           \* websocket clients
MaxBroadcasts == 2        \* calls of ConnectionManager.broadcast

\* ------------------------------------------------- configuration (config.py)
dedup_window_seconds == 300
correlation_window_seconds == 600
notification_cooldown_seconds == 300

\* One clock step, and the length of a silence window an operator creates.
TickSeconds == dedup_window_seconds
SilenceSeconds == 2 * TickSeconds

NoTime == 0 - 1
NoId == 0
NoService == ""

Slots == {1, 2}

\* ------------------------------------------------------------ models/__init__
AlertStatus == {"firing", "acknowledged", "resolved", "suppressed", "archived"}
IncidentStatus == {"open", "acknowledged", "resolved"}

SEVERITY_ORDER == <<"info", "low", "warning", "high", "critical">>

SeverityIndex(s) == CHOOSE i \in DOMAIN SEVERITY_ORDER : SEVERITY_ORDER[i] = s

MaxOf(a, b) == IF a >= b THEN a ELSE b

_max_severity(a, b) ==
    SEVERITY_ORDER[MaxOf(SeverityIndex(a), SeverityIndex(b))]

\* --------------------------------------------------------- normalized alerts
\* The payloads the webhook receives, after normalization
\* (integrations.GenericNormalizer.normalize): a small catalogue.
Payloads == {
    [id |-> "cpu", source |-> "generic", name |-> "HighCPU", service |-> "api",
     host |-> "web-01", severity |-> "warning", status |-> "firing",
     labels |-> {}, starts_at |-> NoTime, ends_at |-> NoTime],
    [id |-> "mem", source |-> "generic", name |-> "HighMemory", service |-> "api",
     host |-> "web-01", severity |-> "critical", status |-> "firing",
     labels |-> {}, starts_at |-> NoTime, ends_at |-> NoTime],
    [id |-> "disk", source |-> "generic", name |-> "DiskFull", service |-> "api",
     host |-> "db-01", severity |-> "high", status |-> "firing",
     labels |-> {<<"value", "97">>}, starts_at |-> 0, ends_at |-> NoTime],
    [id |-> "link", source |-> "generic", name |-> "LinkDown", service |-> NoService,
     host |-> "sw-01", severity |-> "low", status |-> "firing",
     labels |-> {}, starts_at |-> NoTime, ends_at |-> NoTime],
    [id |-> "cpu_ok", source |-> "generic", name |-> "HighCPU", service |-> "api",
     host |-> "web-01", severity |-> "warning", status |-> "resolved",
     labels |-> {<<"value", "12">>}, starts_at |-> NoTime, ends_at |-> 0],
    [id |-> "link_ok", source |-> "generic", name |-> "LinkDown", service |-> NoService,
     host |-> "sw-01", severity |-> "low", status |-> "resolved",
     labels |-> {}, starts_at |-> NoTime, ends_at |-> 0]
}

volatile_keys == {"timestamp", "value", "description", "summary", "generatorURL"}

\* core/fingerprint.py: the identity fields, the labels without the volatile
\* keys; the hash is modelled as collision free (the identity itself).
generate_fingerprint(source, name, service, host, labels) ==
    LET filtered == {kv \in labels : kv[1] \notin volatile_keys}
    IN  <<source, name, service, host, filtered>>

\* ------------------------------------------------------------------- state
VARIABLES
    now,          \* the clock, in seconds
    ticks,        \* number of clock steps taken
    alerts,       \* table alerts: id -> row
    occurrences,  \* table alert_occurrences: sequence of rows
    incidents,    \* table incidents: id -> row
    events,       \* table incident_events: sequence of rows (append only)
    silences,     \* table silence_windows: id -> row
    logs,         \* table notification_logs: id -> row
    cache,        \* notifications._rate_limit_cache: <<channel, incident>> -> time
    sends,        \* the calls of a channel's sender so far, in order
    req,          \* the ingesting requests: slot -> session state
    disp,         \* the running dispatch_notifications calls: slot -> state
    dispatched,   \* number of dispatch_notifications calls made
    calls,        \* the webhook calls answered so far, in order
    received,     \* number of alerts and rejected payloads received
    ops,          \* number of operator requests made
    connections,  \* ws.manager._connections: the websocket clients
    bc,           \* the running ConnectionManager.broadcast call
    bcasts,       \* the broadcast calls that have ended, in order
    oc,           \* a call of oncall.get_current_oncall: its inputs and result
    esc,          \* a call of oncall.find_escalation_policy: inputs and result
    fpr,          \* two calls of generate_fingerprint: inputs and results
    mail          \* the mailbox and the poll of the email forwarder

vars == <<now, ticks, alerts, occurrences, incidents, events, silences, logs,
          cache, sends, req, disp, dispatched, calls, received, ops,
          connections, bc, bcasts, oc, esc, fpr, mail>>

dbvars == <<alerts, occurrences, incidents, events>>
notifyvars == <<logs, cache, sends, disp, dispatched>>
wsvars == <<connections, bc, bcasts>>
libvars == <<oc, esc, fpr, mail>>
appvars == <<now, ticks, dbvars, silences, notifyvars, req, calls, received, ops,
             libvars>>

IdleReq == [pc |-> "idle", p |-> "", at |-> NoTime, after |-> 0, existing |-> NoId,
            loaded |-> 0, alert |-> NoId, incident |-> NoId,
            loaded_sev |-> "", silenced |-> FALSE, is_duplicate |-> FALSE,
            updA |-> <<>>, updI |-> <<>>, rest |-> <<>>, emitted |-> <<>>]

IdleDisp == [pc |-> "idle", incident |-> NoId, event_type |-> "",
             todo |-> <<>>, log |-> NoId]

IdleBroadcast == [pc |-> "idle", used |-> 0, ws |-> NoId, visited |-> {},
                  dead |-> {}, delivered |-> {}, stayed |-> {}, changed |-> FALSE]

\* The store, the requests and the websocket manager after the start.
InitApp ==
    /\ now = 0
    /\ ticks = 0
    /\ alerts = <<>>
    /\ occurrences = <<>>
    /\ incidents = <<>>
    /\ events = <<>>
    /\ silences = <<>>
    /\ logs = <<>>
    /\ cache = <<>>
    /\ sends = <<>>
    /\ req = [r \in Slots |-> IdleReq]
    /\ disp = [d \in Slots |-> IdleDisp]
    /\ dispatched = 0
    /\ calls = <<>>
    /\ received = 0
    /\ ops = 0
    /\ connections = {}
    /\ bc = IdleBroadcast
    /\ bcasts = <<>>

\* No call of the library functions and no poll of the forwarder is made.
Unused == [result |-> "unused"]

Init ==
    /\ InitApp
    /\ oc = Unused
    /\ esc = Unused
    /\ fpr = Unused
    /\ mail = Unused

\* ----------------------------------------------------------------- helpers
Payload(pid) == CHOOSE p \in Payloads : p.id = pid

Fingerprint(p) == generate_fingerprint(p.source, p.name, p.service, p.host, p.labels)

NewId(tbl) == CHOOSE n \in 1..(Cardinality(DOMAIN tbl) + 1) : n \notin DOMAIN tbl

\* What session r reads: committed rows and its own rows, with its own
\* pending updates applied.  Session 0 is a reader outside every request.
Visible(r, row) == row.tx = 0 \/ row.tx = r

AlertRow(r, a) ==
    IF r \in Slots /\ a \in DOMAIN req[r].updA
    THEN [alerts[a] EXCEPT !.duplicate_count = req[r].updA[a].duplicate_count,
                           !.last_received_at = req[r].updA[a].last_received_at]
    ELSE alerts[a]

IncidentRow(r, i) ==
    IF r \in Slots /\ i \in DOMAIN req[r].updI
    THEN [incidents[i] EXCEPT
            !.severity = IF req[r].updI[i].severity # ""
                         THEN req[r].updI[i].severity ELSE @,
            !.status = IF req[r].updI[i].status # ""
                       THEN req[r].updI[i].status ELSE @,
            !.resolved_at = IF req[r].updI[i].status # ""
                            THEN req[r].updI[i].resolved_at ELSE @]
    ELSE incidents[i]

VisibleAlerts(r) == {a \in DOMAIN alerts : Visible(r, alerts[a])}
VisibleIncidents(r) == {i \in DOMAIN incidents : Visible(r, incidents[i])}

\* incident.alerts as session r loads it
IncidentAlerts(r, i) == {a \in VisibleAlerts(r) : alerts[a].incident_id = i}

\* Row locks: a row updated by a session that has not ended yet.
AlertLocked(r, a) == \E q \in Slots \ {r} : a \in DOMAIN req[q].updA
IncidentLocked(r, i) == \E q \in Slots \ {r} : i \in DOMAIN req[q].updI

Committed(tbl) == {k \in DOMAIN tbl : tbl[k].tx = 0}

\* -------------------------------------------------------------------- clock
\* A request takes far less than one clock step: the clock steps between
\* requests.
Tick ==
    /\ ticks < MaxTicks
    /\ \A r \in Slots : req[r].pc = "idle"
    /\ ticks' = ticks + 1
    /\ now' = now + TickSeconds
    /\ UNCHANGED <<wsvars, libvars>>
    /\ UNCHANGED <<dbvars, silences, notifyvars, req, calls, received, ops>>

\* ------------------------------------------------------- sessions (get_db)
\* session.commit(): the rows of session r and its pending updates become
\* visible to everyone.
CommitAlerts(r) ==
    [a \in DOMAIN alerts |->
        IF alerts[a].tx = r THEN [alerts[a] EXCEPT !.tx = 0] ELSE AlertRow(r, a)]

CommitIncidents(r) ==
    [i \in DOMAIN incidents |->
        IF incidents[i].tx = r THEN [incidents[i] EXCEPT !.tx = 0] ELSE IncidentRow(r, i)]

CommitRows(r, rows) ==
    [k \in DOMAIN rows |-> IF rows[k].tx = r THEN [rows[k] EXCEPT !.tx = 0] ELSE rows[k]]

\* session.rollback(): the rows of session r and its pending updates vanish.
RollbackTable(r, tbl) ==
    [k \in {j \in DOMAIN tbl : tbl[j].tx # r} |-> tbl[k]]

RollbackRows(r, rows) == SelectSeq(rows, LAMBDA row : row.tx # r)

\* ---------------------------------------------------- POST /webhooks/{provider}
\* api/routes/webhooks.py receive_webhook: the payload is parsed and
\* normalized, then handed to services.ingest_alert.  The request notes the
\* time and the number of calls answered before it was received.
ReceiveWebhook(r, pid) ==
    /\ req[r].pc = "idle"
    /\ \A q \in Slots : q < r => req[q].pc # "idle"
    /\ received' = received + 1
    /\ req' = [req EXCEPT ![r] = [IdleReq EXCEPT !.pc = "find_duplicate",
                                                 !.p = pid, !.at = now,
                                                 !.after = Len(calls)]]
    /\ UNCHANGED <<wsvars, libvars>>
    /\ UNCHANGED <<now, ticks, dbvars, silences, notifyvars, calls, ops>>

\* A provider such as prometheus sends several alerts in one payload:
\* normalize returns them all and receive_webhook (lines 78-81) ingests them
\* one after the other in the session of the call.
BatchPayloads == {"cpu", "disk"}

Batches == {<<x, y>> : x \in BatchPayloads, y \in BatchPayloads}

ReceiveBatch(r, batch) ==
    /\ req[r].pc = "idle"
    /\ \A q \in Slots : q < r => req[q].pc # "idle"
    /\ received' = received + Len(batch)
    /\ req' = [req EXCEPT ![r] = [IdleReq EXCEPT !.pc = "find_duplicate",
                                                 !.p = Head(batch),
                                                 !.rest = Tail(batch),
                                                 !.at = now,
                                                 !.after = Len(calls)]]
    /\ UNCHANGED <<wsvars, libvars>>
    /\ UNCHANGED <<now, ticks, dbvars, silences, notifyvars, calls, ops>>

\* receive_webhook, lines 78-81: ingest_alert has returned the alert of a
\* duplicate or a suppressed alert, the loop goes on with the next alert of
\* the payload.  The session keeps its rows and its pending updates.
NextAlert(r) ==
    /\ req[r].pc = "respond"
    /\ req[r].rest # <<>>
    /\ req' = [req EXCEPT ![r] = [IdleReq EXCEPT !.pc = "find_duplicate",
                                                 !.p = Head(req[r].rest),
                                                 !.rest = Tail(req[r].rest),
                                                 !.at = req[r].at,
                                                 !.after = req[r].after,
                                                 !.updA = req[r].updA,
                                                 !.updI = req[r].updI,
                                                 !.emitted = req[r].emitted]]
    /\ UNCHANGED <<wsvars, libvars>>
    /\ UNCHANGED <<now, ticks, dbvars, silences, notifyvars, calls, received, ops>>

\* core/dedup.py find_duplicate: the most recently created alert of the
\* fingerprint that is firing or acknowledged and was last received within
\* the dedup window.
DuplicateCandidates(r, fingerprint) ==
    {a \in VisibleAlerts(r) :
        /\ AlertRow(r, a).fp = fingerprint
        /\ AlertRow(r, a).status \in {"firing", "acknowledged"}
        /\ AlertRow(r, a).last_received_at >= now - dedup_window_seconds}

find_duplicate(r, fingerprint) ==
    LET c == DuplicateCandidates(r, fingerprint)
    IN  {a \in c : \A b \in c : alerts[b].created_at <= alerts[a].created_at}

\* services.ingest_alert, steps 1 and 2 (lines 43-53)
FindDuplicate(r) ==
    /\ req[r].pc = "find_duplicate"
    /\ LET found == find_duplicate(r, Fingerprint(Payload(req[r].p)))
       IN  IF found = {}
           THEN req' = [req EXCEPT ![r].pc = "check_silence"]
           ELSE \E a \in found :
                   req' = [req EXCEPT ![r].pc = "process_duplicate",
                                      ![r].existing = a,
                                      ![r].loaded = AlertRow(r, a).duplicate_count]
    /\ UNCHANGED <<wsvars, libvars>>
    /\ UNCHANGED <<now, ticks, dbvars, silences, notifyvars, calls, received, ops>>

\* core/dedup.py process_duplicate, on the alert object the session loaded
process_duplicate(loaded) == loaded + 1

\* A variant of step 3a that goes on to correlate the existing alert.
ProcessDuplicate_correlating(r) ==
    /\ req[r].pc = "process_duplicate"
    /\ ~AlertLocked(r, req[r].existing)
    /\ req' = [req EXCEPT ![r].pc = "correlate", ![r].alert = req[r].existing,
                          ![r].is_duplicate = TRUE]
    /\ occurrences' = Append(occurrences, [alert_id |-> req[r].existing, tx |-> r])
    /\ UNCHANGED <<wsvars, libvars>>
    /\ UNCHANGED <<now, ticks, alerts, incidents, events, silences, notifyvars,
                   calls, received, ops>>

\* ws.emit_event called from ingest_alert lines 69-73: the message is
\* broadcast at once to the clients connected at that moment.
emit_event(r, event_type, a, count) ==
    Append(req[r].emitted,
           [type |-> event_type, alert_id |-> a, duplicate_count |-> count])

\* services.ingest_alert, step 3a (lines 55-75): the counter is written
\* from the loaded value, one occurrence row is added, alert.updated is
\* emitted with the new count.
ProcessDuplicate(r) ==
    /\ req[r].pc = "process_duplicate"
    /\ ~AlertLocked(r, req[r].existing)
    /\ LET a == req[r].existing
           upd == [duplicate_count |-> process_duplicate(req[r].loaded),
                   last_received_at |-> now]
       IN  /\ IF alerts[a].tx = r
              THEN /\ alerts' = [alerts EXCEPT
                                   ![a].duplicate_count = upd.duplicate_count,
                                   ![a].last_received_at = upd.last_received_at]
                   /\ req' = [req EXCEPT ![r].pc = "respond",
                                         ![r].alert = a,
                                         ![r].is_duplicate = TRUE,
                                         ![r].emitted = emit_event(r, "alert.updated", a,
                                                                   upd.duplicate_count)]
              ELSE /\ alerts' = alerts
                   /\ req' = [req EXCEPT ![r].pc = "respond",
                                         ![r].alert = a,
                                         ![r].is_duplicate = TRUE,
                                         ![r].emitted = emit_event(r, "alert.updated", a,
                                                                   upd.duplicate_count),
                                         ![r].updA = [x \in DOMAIN req[r].updA \cup {a} |->
                                                        IF x = a THEN upd
                                                        ELSE req[r].updA[x]]]
           /\ occurrences' = Append(occurrences, [alert_id |-> a, tx |-> r])
    /\ UNCHANGED <<wsvars, libvars>>
    /\ UNCHANGED <<now, ticks, incidents, events, silences, notifyvars, calls, received, ops>>

\* core/silence.py _matches: the clauses of a matcher are AND-combined, an
\* empty clause matches everything.
_matches(matchers, alert) ==
    /\ matchers.service # {} =>
          (alert.service # NoService /\ alert.service \in matchers.service)
    /\ matchers.severity # {} => alert.severity \in matchers.severity
    /\ matchers.labels # {} => \A kv \in matchers.labels : kv \in alert.labels

\* A variant of check_silence whose windows end before their ends_at.
check_silence_open_end(alert) ==
    {w \in DOMAIN silences :
        /\ silences[w].is_active
        /\ silences[w].starts_at <= now
        /\ silences[w].ends_at > now
        /\ _matches(silences[w].matchers, alert)}

\* core/silence.py check_silence: the active windows at the current time
check_silence(alert) ==
    {w \in DOMAIN silences :
        /\ silences[w].is_active
        /\ silences[w].starts_at <= now
        /\ silences[w].ends_at >= now
        /\ _matches(silences[w].matchers, alert)}

\* services.ingest_alert, step 3b (lines 95-97)
CheckSilence(r) ==
    /\ req[r].pc = "check_silence"
    /\ req' = [req EXCEPT ![r].pc = "persist",
                          ![r].silenced = (check_silence(Payload(req[r].p)) # {})]
    /\ UNCHANGED <<wsvars, libvars>>
    /\ UNCHANGED <<now, ticks, dbvars, silences, notifyvars, calls, received, ops>>

\* A variant of the insert that commits the alert row at once.
NewAlert_autocommit(r, p, status) ==
    [fp |-> Fingerprint(p), service |-> p.service, severity |-> p.severity,
     status |-> status, incident_id |-> NoId, duplicate_count |-> 1,
     last_received_at |-> now, created_at |-> now,
     starts_at |-> IF p.starts_at # NoTime THEN p.starts_at ELSE now,
     ends_at |-> p.ends_at,
     resolved_at |-> IF status = "resolved" /\ p.ends_at # NoTime
                     THEN p.ends_at ELSE NoTime,
     acknowledged_at |-> NoTime, tx |-> 0]

NewAlert(r, p, status) ==
    [fp |-> Fingerprint(p), service |-> p.service, severity |-> p.severity,
     status |-> status, incident_id |-> NoId, duplicate_count |-> 1,
     last_received_at |-> now, created_at |-> now,
     starts_at |-> IF p.starts_at # NoTime THEN p.starts_at ELSE now,
     ends_at |-> p.ends_at,
     resolved_at |-> IF status = "resolved" /\ p.ends_at # NoTime
                     THEN p.ends_at ELSE NoTime,
     acknowledged_at |-> NoTime, tx |-> r]

\* services.ingest_alert, lines 97-127 (suppressed) and lines 129-164 (new
\* alert with its first occurrence)
PersistAlert(r) ==
    /\ req[r].pc = "persist"
    /\ LET p == Payload(req[r].p)
           a == NewId(alerts)
       IN  IF req[r].silenced
           THEN /\ alerts' = alerts @@ (a :> NewAlert(r, p, "suppressed"))
                /\ occurrences' = occurrences
                /\ req' = [req EXCEPT ![r].pc = "respond", ![r].alert = a]
           ELSE /\ alerts' = alerts @@ (a :> NewAlert(r, p, p.status))
                /\ occurrences' = Append(occurrences, [alert_id |-> a, tx |-> r])
                /\ req' = [req EXCEPT ![r].pc = "correlate", ![r].alert = a]
    /\ UNCHANGED <<wsvars, libvars>>
    /\ UNCHANGED <<now, ticks, incidents, events, silences, notifyvars, calls, received, ops>>

\* ------------------------------------------------------- core/correlation.py
\* find_matching_incident: the most recently started open or acknowledged
\* incident that started within the correlation window and has an alert of
\* the same service.
MatchingIncidents(r, alert) ==
    IF alert.service = NoService
    THEN {}
    ELSE {i \in VisibleIncidents(r) :
            /\ IncidentRow(r, i).status \in {"open", "acknowledged"}
            /\ IncidentRow(r, i).started_at >= now - correlation_window_seconds
            /\ \E a \in IncidentAlerts(r, i) : alerts[a].service = alert.service}

find_matching_incident(r, alert) ==
    LET c == MatchingIncidents(r, alert)
    IN  {i \in c : \A j \in c : incidents[j].started_at <= incidents[i].started_at}

\* The pending UPDATE of an incident row by session r.
NoUpdate == [severity |-> "", status |-> "", resolved_at |-> NoTime]

PendingIncident(r, i) ==
    IF i \in DOMAIN req[r].updI THEN req[r].updI[i] ELSE NoUpdate

WithUpdI(r, i, upd) ==
    [x \in DOMAIN req[r].updI \cup {i} |-> IF x = i THEN upd ELSE req[r].updI[x]]

\* _handle_resolved_alert: an alert that arrives resolved.  Without an
\* incident nothing is done; with one, the incident is resolved when all of
\* its alerts are.
_handle_resolved_alert(r) ==
    LET a == req[r].alert
        i == alerts[a].incident_id
    IN  IF i = NoId \/ i \notin VisibleIncidents(r)
        THEN /\ req' = [req EXCEPT ![r].pc = "result", ![r].incident = NoId]
             /\ UNCHANGED <<incidents, events>>
        ELSE IF /\ \A b \in IncidentAlerts(r, i) : alerts[b].status = "resolved"
                /\ IncidentRow(r, i).status # "resolved"
        THEN /\ ~IncidentLocked(r, i)
             /\ IF incidents[i].tx = r
                THEN /\ incidents' = [incidents EXCEPT ![i].status = "resolved",
                                                       ![i].resolved_at = now]
                     /\ req' = [req EXCEPT ![r].pc = "result", ![r].incident = i]
                ELSE /\ incidents' = incidents
                     /\ req' = [req EXCEPT
                          ![r].pc = "result", ![r].incident = i,
                          ![r].updI = WithUpdI(r, i,
                              [PendingIncident(r, i) EXCEPT !.status = "resolved",
                                                            !.resolved_at = now])]
             /\ events' = Append(events, [incident_id |-> i,
                                          event_type |-> "incident_auto_resolved",
                                          tx |-> r])
        ELSE /\ req' = [req EXCEPT ![r].pc = "result", ![r].incident = i]
             /\ UNCHANGED <<incidents, events>>

\* correlate_alert, lines 114-119: a resolved alert is handled apart, for
\* the others the matching incident is looked up and loaded.
CorrelateAlert(r) ==
    /\ req[r].pc = "correlate"
    /\ IF alerts[req[r].alert].status = "resolved"
       THEN _handle_resolved_alert(r)
       ELSE /\ LET found == find_matching_incident(r, alerts[req[r].alert])
               IN  IF found = {}
                   THEN req' = [req EXCEPT ![r].pc = "create_incident"]
                   ELSE \E i \in found :
                          req' = [req EXCEPT ![r].pc = "attach",
                                             ![r].incident = i,
                                             ![r].loaded_sev = IncidentRow(r, i).severity]
            /\ UNCHANGED <<incidents, events>>
    /\ UNCHANGED <<wsvars, libvars>>
    /\ UNCHANGED <<now, ticks, alerts, occurrences, silences, notifyvars, calls, received, ops>>

\* _attach_to_incident: the alert is linked, the severity of the incident
\* object the session loaded is promoted, the events are recorded.
AttachToIncident(r) ==
    /\ LET a == req[r].alert
           i == req[r].incident
           new_severity == _max_severity(req[r].loaded_sev, alerts[a].severity)
           severity_changed == new_severity # req[r].loaded_sev
       IN  /\ alerts' = [alerts EXCEPT ![a].incident_id = i]
           /\ IF severity_changed
              THEN /\ ~IncidentLocked(r, i)
                   /\ IF incidents[i].tx = r
                      THEN /\ incidents' = [incidents EXCEPT ![i].severity = new_severity]
                           /\ req' = [req EXCEPT ![r].pc = "result"]
                      ELSE /\ incidents' = incidents
                           /\ req' = [req EXCEPT
                                ![r].pc = "result",
                                ![r].updI = WithUpdI(r, i,
                                    [PendingIncident(r, i) EXCEPT !.severity = new_severity])]
                   /\ events' = events \o
                        << [incident_id |-> i, event_type |-> "alert_added", tx |-> r],
                           [incident_id |-> i, event_type |-> "severity_changed", tx |-> r] >>
              ELSE /\ incidents' = incidents
                   /\ req' = [req EXCEPT ![r].pc = "result"]
                   /\ events' = Append(events, [incident_id |-> i,
                                                event_type |-> "alert_added", tx |-> r])
    /\ UNCHANGED <<wsvars, libvars>>
    /\ UNCHANGED <<now, ticks, occurrences, silences, notifyvars, calls, received, ops>>

\* _create_incident: a new open incident of the alert's severity
CreateIncident(r) ==
    /\ LET a == req[r].alert
           i == NewId(incidents)
       IN  /\ incidents' = incidents @@
                 (i :> [status |-> "open", severity |-> alerts[a].severity,
                        started_at |-> alerts[a].starts_at,
                        acknowledged_at |-> NoTime, resolved_at |-> NoTime,
                        tx |-> r])
           /\ alerts' = [alerts EXCEPT ![a].incident_id = i]
           /\ events' = Append(events, [incident_id |-> i,
                                        event_type |-> "incident_created", tx |-> r])
           /\ req' = [req EXCEPT ![r].pc = "result", ![r].incident = i]
    /\ UNCHANGED <<wsvars, libvars>>
    /\ UNCHANGED <<now, ticks, occurrences, silences, notifyvars, calls, received, ops>>

\* correlate_alert, lines 121-124: attach to the incident found, or create one
AttachOrCreate(r) ==
    /\ req[r].pc \in {"attach", "create_incident"}
    /\ IF req[r].pc = "attach" THEN AttachToIncident(r) ELSE CreateIncident(r)

\* ------------------------------------------- the end of a webhook call
Answer(r, outcome) ==
    [p |-> req[r].p, at |-> req[r].at, after |-> req[r].after, outcome |-> outcome,
     is_duplicate |-> req[r].is_duplicate,
     duplicate_count |-> IF outcome = "500" THEN 0
                         ELSE AlertRow(r, req[r].alert).duplicate_count,
     alert |-> IF outcome = "500" THEN NoId ELSE req[r].alert,
     silenced |-> req[r].silenced,
     rest |-> req[r].rest,
     emitted |-> req[r].emitted,
     kind |-> "alerts"]

Commit(r) ==
    /\ alerts' = CommitAlerts(r)
    /\ incidents' = CommitIncidents(r)
    /\ occurrences' = CommitRows(r, occurrences)
    /\ events' = CommitRows(r, events)

Rollback(r) ==
    /\ alerts' = RollbackTable(r, alerts)
    /\ incidents' = RollbackTable(r, incidents)
    /\ occurrences' = RollbackRows(r, occurrences)
    /\ events' = RollbackRows(r, events)

\* services.ingest_alert, lines 169-170: correlate_alert has returned an
\* Incident (or None); reading its attribute `incident` raises
\* AttributeError, which leaves ingest_alert and receive_webhook; get_db
\* rolls the session back and the call is answered with status 500.
ReadResult(r) ==
    /\ req[r].pc = "result"
    /\ Rollback(r)
    /\ calls' = Append(calls, Answer(r, "500"))
    /\ req' = [req EXCEPT ![r] = IdleReq]
    /\ UNCHANGED <<wsvars, libvars>>
    /\ UNCHANGED <<now, ticks, silences, notifyvars, received, ops>>

\* A variant of the return of a duplicate or suppressed alert that calls the
\* notifier on its way.
Respond_notifying(r) ==
    /\ req[r].pc = "respond"
    /\ req[r].rest = <<>>
    /\ Commit(r)
    /\ calls' = Append(calls, Answer(r, "202"))
    /\ req' = [req EXCEPT ![r] = IdleReq]
    /\ dispatched' = dispatched + 1
    /\ UNCHANGED <<wsvars, libvars>>
    /\ UNCHANGED <<now, ticks, silences, logs, cache, sends, disp, received, ops>>

\* receive_webhook, lines 82-92, and get_db: the duplicate and the
\* suppressed alert are returned, the session commits, the answer is 202.
Respond(r) ==
    /\ req[r].pc = "respond"
    /\ req[r].rest = <<>>
    /\ Commit(r)
    /\ calls' = Append(calls, Answer(r, "202"))
    /\ req' = [req EXCEPT ![r] = IdleReq]
    /\ UNCHANGED <<wsvars, libvars>>
    /\ UNCHANGED <<now, ticks, silences, notifyvars, received, ops>>

\* ------------------------------------------------- operator requests: alerts
NoSession == 0

\* services.acknowledge_alert (POST /alerts/{id}/acknowledge)
acknowledge_alert(a) ==
    [alerts[a] EXCEPT !.status = "acknowledged", !.acknowledged_at = now]

AcknowledgeAlert(a) ==
    /\ ops < MaxOps
    /\ a \in Committed(alerts)
    /\ ~AlertLocked(NoSession, a)
    /\ alerts' = [alerts EXCEPT ![a] = acknowledge_alert(a)]
    /\ ops' = ops + 1
    /\ UNCHANGED <<wsvars, libvars>>
    /\ UNCHANGED <<now, ticks, occurrences, incidents, events, silences,
                   notifyvars, req, calls, received>>

\* services.resolve_alert (POST /alerts/{id}/resolve)
resolve_alert(a) ==
    [alerts[a] EXCEPT !.status = "resolved", !.resolved_at = now, !.ends_at = now]

ResolveAlert(a) ==
    /\ ops < MaxOps
    /\ a \in Committed(alerts)
    /\ ~AlertLocked(NoSession, a)
    /\ alerts' = [alerts EXCEPT ![a] = resolve_alert(a)]
    /\ ops' = ops + 1
    /\ UNCHANGED <<wsvars, libvars>>
    /\ UNCHANGED <<now, ticks, occurrences, incidents, events, silences,
                   notifyvars, req, calls, received>>

\* ------------------------------------------------------ api/routes/silences.py
SilenceMatchers == {
    [service |-> {"api"}, severity |-> {"warning", "critical"}, labels |-> {}]
}

\* The operator edits the silence windows between the webhook calls.
\* create_silence: a window from now on, for SilenceSeconds
CreateSilence(m) ==
    /\ Cardinality(DOMAIN silences) < MaxSilences
    /\ \A r \in Slots : req[r].pc = "idle"
    /\ silences' = silences @@
          (NewId(silences) :> [matchers |-> m, starts_at |-> now,
                               ends_at |-> now + SilenceSeconds,
                               is_active |-> TRUE])
    /\ UNCHANGED <<wsvars, libvars>>
    /\ UNCHANGED <<now, ticks, dbvars, notifyvars, req, calls, received, ops>>

\* delete_silence: the window is deactivated
DeleteSilence(w) ==
    /\ w \in DOMAIN silences
    /\ \A r \in Slots : req[r].pc = "idle"
    /\ silences[w].is_active
    /\ silences' = [silences EXCEPT ![w].is_active = FALSE]
    /\ UNCHANGED <<wsvars, libvars>>
    /\ UNCHANGED <<now, ticks, dbvars, notifyvars, req, calls, received, ops>>

\* ------------------------------------- requests that receive_webhook rejects
\* receive_webhook, lines 44-70 and 82-83: a body that is not JSON, a
\* provider without a normalizer, a payload the normalizer does not
\* validate, a payload whose normalization raises, and a payload that
\* yields no alert.
BadRequests == {"invalid_json", "unknown_provider", "schema_mismatch",
                "normalize_error", "no_alerts"}

status_code(kind) ==
    IF kind \in {"invalid_json", "unknown_provider"} THEN "400" ELSE "422"

\* HTTPException is raised before ingest_alert is called; get_db rolls back
\* a session that has written nothing.
RejectWebhook(kind) ==
    /\ calls' = Append(calls,
          [p |-> "", at |-> now, after |-> Len(calls), outcome |-> status_code(kind),
           is_duplicate |-> FALSE, duplicate_count |-> 0, alert |-> NoId,
           silenced |-> FALSE, rest |-> <<>>, emitted |-> <<>>, kind |-> kind])
    /\ received' = received + 1
    /\ UNCHANGED <<wsvars, libvars>>
    /\ UNCHANGED <<now, ticks, dbvars, silences, notifyvars, req, ops>>

\* ---------------------------------------------------------- the program
Receive(r) == \E pid \in {p.id : p \in Payloads} : ReceiveWebhook(r, pid)

Ingest(r) ==
    \/ FindDuplicate(r)
    \/ ProcessDuplicate(r)
    \/ CheckSilence(r)
    \/ PersistAlert(r)
    \/ CorrelateAlert(r)
    \/ AttachOrCreate(r)

Next ==
    \/ Tick
    \/ \E r \in Slots : received < MaxCalls /\ Receive(r)
    \/ \E r \in Slots, batch \in Batches :
          received + Len(batch) <= MaxCalls /\ ReceiveBatch(r, batch)
    \/ \E kind \in BadRequests : received < MaxCalls /\ RejectWebhook(kind)
    \/ \E r \in Slots : Ingest(r)
    \/ \E r \in Slots : NextAlert(r)
    \/ \E r \in Slots : ReadResult(r)
    \/ \E r \in Slots : Respond(r)
    \/ \E a \in DOMAIN alerts : AcknowledgeAlert(a)
    \/ \E a \in DOMAIN alerts : ResolveAlert(a)
    \/ \E m \in SilenceMatchers : CreateSilence(m)
    \/ \E w \in DOMAIN silences : DeleteSilence(w)

Spec == Init /\ [][Next]_vars

\* ---------------------------------------------- operator requests: incidents
\* services.get_incident loads the incident with its committed alerts.
IncidentMembers(i) == {a \in Committed(alerts) : alerts[a].incident_id = i}

OperatorMayWrite(i) ==
    /\ ~IncidentLocked(NoSession, i)
    /\ \A a \in IncidentMembers(i) : ~AlertLocked(NoSession, a)

\* services.acknowledge_incident (POST /incidents/{id}/acknowledge)
AcknowledgeIncident(i) ==
    /\ ops < MaxOps
    /\ i \in Committed(incidents)
    /\ OperatorMayWrite(i)
    /\ incidents' = [incidents EXCEPT ![i].status = "acknowledged",
                                      ![i].acknowledged_at = now]
    /\ alerts' = [a \in DOMAIN alerts |->
                    IF a \in IncidentMembers(i) /\ alerts[a].status = "firing"
                    THEN [alerts[a] EXCEPT !.status = "acknowledged",
                                           !.acknowledged_at = now]
                    ELSE alerts[a]]
    /\ events' = Append(events, [incident_id |-> i,
                                 event_type |-> "incident_acknowledged", tx |-> 0])
    /\ ops' = ops + 1
    /\ UNCHANGED <<wsvars, libvars>>
    /\ UNCHANGED <<now, ticks, occurrences, silences, notifyvars, req, calls, received>>

\* services.resolve_incident (POST /incidents/{id}/resolve)
ResolveIncident(i) ==
    /\ ops < MaxOps
    /\ i \in Committed(incidents)
    /\ OperatorMayWrite(i)
    /\ incidents' = [incidents EXCEPT ![i].status = "resolved",
                                      ![i].resolved_at = now]
    /\ alerts' = [a \in DOMAIN alerts |->
                    IF /\ a \in IncidentMembers(i)
                       /\ alerts[a].status \in {"firing", "acknowledged"}
                    THEN [alerts[a] EXCEPT !.status = "resolved",
                                           !.resolved_at = now, !.ends_at = now]
                    ELSE alerts[a]]
    /\ events' = Append(events, [incident_id |-> i,
                                 event_type |-> "incident_resolved", tx |-> 0])
    /\ ops' = ops + 1
    /\ UNCHANGED <<wsvars, libvars>>
    /\ UNCHANGED <<now, ticks, occurrences, silences, notifyvars, req, calls, received>>

\* services.bulk_acknowledge_alerts: the firing alerts among alert_ids
BulkAcknowledgeAlerts(alert_ids) ==
    /\ ops < MaxOps
    /\ alert_ids # {}
    /\ \A a \in alert_ids : ~AlertLocked(NoSession, a)
    /\ alerts' = [a \in DOMAIN alerts |->
                    IF a \in alert_ids /\ alerts[a].status = "firing"
                    THEN [alerts[a] EXCEPT !.status = "acknowledged",
                                           !.acknowledged_at = now]
                    ELSE alerts[a]]
    /\ ops' = ops + 1
    /\ UNCHANGED <<wsvars, libvars>>
    /\ UNCHANGED <<now, ticks, occurrences, incidents, events, silences,
                   notifyvars, req, calls, received>>

\* services.bulk_resolve_alerts: the firing or acknowledged alerts among
\* alert_ids
BulkResolveAlerts(alert_ids) ==
    /\ ops < MaxOps
    /\ alert_ids # {}
    /\ \A a \in alert_ids : ~AlertLocked(NoSession, a)
    /\ alerts' = [a \in DOMAIN alerts |->
                    IF a \in alert_ids /\ alerts[a].status \in {"firing", "acknowledged"}
                    THEN [alerts[a] EXCEPT !.status = "resolved",
                                           !.resolved_at = now, !.ends_at = now]
                    ELSE alerts[a]]
    /\ ops' = ops + 1
    /\ UNCHANGED <<wsvars, libvars>>
    /\ UNCHANGED <<now, ticks, occurrences, incidents, events, silences,
                   notifyvars, req, calls, received>>

\* ------------------------------------------------ the pipeline functions
\* The functions of the pipeline driven by a caller that commits its
\* session when correlate_alert has returned.
PipelineReturn(r) ==
    /\ req[r].pc \in {"result", "respond"}
    /\ Commit(r)
    /\ req' = [req EXCEPT ![r] = IdleReq]
    /\ UNCHANGED <<wsvars, libvars>>
    /\ UNCHANGED <<now, ticks, silences, notifyvars, calls, received, ops>>

\* One session at a time, with the operator requests.
NextCore ==
    \/ Tick
    \/ received < MaxCalls /\ Receive(1)
    \/ Ingest(1)
    \/ PipelineReturn(1)
    \/ \E a \in DOMAIN alerts : AcknowledgeAlert(a)
    \/ \E a \in DOMAIN alerts : ResolveAlert(a)
    \/ \E i \in DOMAIN incidents : AcknowledgeIncident(i)
    \/ \E i \in DOMAIN incidents : ResolveIncident(i)
    \/ \E ids \in SUBSET Committed(alerts) : BulkAcknowledgeAlerts(ids)
    \/ \E ids \in SUBSET Committed(alerts) : BulkResolveAlerts(ids)

SpecCore == Init /\ [][NextCore]_vars

\* Concurrent sessions.
NextRace ==
    \/ Tick
    \/ \E r \in Slots : received < MaxRaceCalls /\ Receive(r)
    \/ \E r \in Slots : Ingest(r)
    \/ \E r \in Slots : PipelineReturn(r)

SpecRace == Init /\ [][NextRace]_vars

\* ------------------------------------------------------ core/notifications.py
\* The rows of notification_channels, in the order the query returns them.
Channels == <<
    [id |-> 1, is_active |-> TRUE, filters |-> [severity |-> {}, service |-> {}]],
    [id |-> 2, is_active |-> TRUE,
     filters |-> [severity |-> {"high", "critical"}, service |-> {"api"}]],
    [id |-> 3, is_active |-> FALSE, filters |-> [severity |-> {}, service |-> {}]]
>>

EventTypes == {"incident_created", "severity_changed"}

\* matches_filters: an empty filter lets every incident pass
matches_filters(channel, i) ==
    /\ channel.filters.severity # {} =>
          incidents[i].severity \in channel.filters.severity
    /\ channel.filters.service # {} =>
          \E a \in IncidentMembers(i) :
              alerts[a].service # NoService /\ alerts[a].service \in channel.filters.service

\* A variant of check_rate_limit that forgets the stamp of the pair.
check_rate_limit_unstamped(channel_id, incident_id) == TRUE

\* check_rate_limit: TRUE when the pair was never stamped or was stamped at
\* least the cooldown ago; the caller then stamps the pair (lines 88-89).
check_rate_limit(channel_id, incident_id) ==
    LET key == <<channel_id, incident_id>>
    IN  ~(key \in DOMAIN cache /\ (now - cache[key]) < notification_cooldown_seconds)

Stamp(key) == [k \in DOMAIN cache \cup {key} |-> IF k = key THEN now ELSE cache[k]]

\* dispatch_notifications, lines 528-535: the active channels are loaded
DispatchBegin(d, i, event_type) ==
    /\ disp[d].pc = "idle"
    /\ dispatched < MaxDispatches
    /\ \A r \in Slots : req[r].pc = "idle"
    /\ i \in Committed(incidents)
    /\ LET channels == SelectSeq(Channels, LAMBDA c : c.is_active)
       IN  disp' = [disp EXCEPT ![d] =
                IF channels = <<>> THEN IdleDisp
                ELSE [pc |-> "channel", incident |-> i, event_type |-> event_type,
                      todo |-> channels, log |-> NoId]]
    /\ dispatched' = dispatched + 1
    /\ UNCHANGED <<wsvars, libvars>>
    /\ UNCHANGED <<now, ticks, dbvars, silences, logs, cache, sends, req,
                   calls, received, ops>>

\* The loop is left when the last channel is done.
AfterChannel(d) ==
    IF Tail(disp[d].todo) = <<>>
    THEN IdleDisp
    ELSE [disp[d] EXCEPT !.pc = "channel", !.todo = Tail(@), !.log = NoId]

\* dispatch_notifications, lines 537-560: the filters, the rate limit, the
\* pending log row and the call of the sender
DispatchChannel(d) ==
    /\ disp[d].pc = "channel"
    /\ LET channel == Head(disp[d].todo)
           i == disp[d].incident
           l == NewId(logs)
       IN  IF matches_filters(channel, i) /\ check_rate_limit(channel.id, i)
           THEN /\ cache' = Stamp(<<channel.id, i>>)
                /\ logs' = logs @@
                      (l :> [channel_id |-> channel.id, incident_id |-> i,
                             event_type |-> disp[d].event_type,
                             status |-> "pending", sent_at |-> NoTime,
                             error_message |-> NoTime])
                /\ sends' = Append(sends, [channel_id |-> channel.id,
                                           incident_id |-> i,
                                           event_type |-> disp[d].event_type,
                                           at |-> now])
                /\ disp' = [disp EXCEPT ![d].pc = "sending", ![d].log = l]
           ELSE /\ disp' = [disp EXCEPT ![d] = AfterChannel(d)]
                /\ UNCHANGED <<cache, logs, sends>>
    /\ UNCHANGED <<wsvars, libvars>>
    /\ UNCHANGED <<now, ticks, dbvars, silences, dispatched, req, calls, received, ops>>

\* The lengths of str(e) for the exceptions a sender raises.
max_error_message == 500

ErrorLengths == {12, max_error_message + 1}

\* A variant that stores the whole text of the exception.
truncate_none(length) == length

\* str(e)[:500], a text being modelled by its length
truncate(length) == IF length <= max_error_message THEN length ELSE max_error_message

\* A variant of the loop that is left when a sender raises.
DispatchSent_abort(d, ok) ==
    /\ disp[d].pc = "sending"
    /\ \E length \in ErrorLengths :
          logs' = [logs EXCEPT ![disp[d].log] =
                  IF ok THEN [@ EXCEPT !.status = "sent", !.sent_at = now]
                  ELSE [@ EXCEPT !.status = "failed",
                                 !.error_message = truncate(length)]]
    /\ disp' = [disp EXCEPT ![d] = IF ok THEN AfterChannel(d) ELSE IdleDisp]
    /\ UNCHANGED <<wsvars, libvars>>
    /\ UNCHANGED <<now, ticks, dbvars, silences, cache, sends, dispatched, req,
                   calls, received, ops>>

\* dispatch_notifications, lines 562-580: the sender has returned or raised
DispatchSent(d, ok) ==
    /\ disp[d].pc = "sending"
    /\ \E length \in ErrorLengths :
          logs' = [logs EXCEPT ![disp[d].log] =
                  IF ok THEN [@ EXCEPT !.status = "sent", !.sent_at = now]
                  ELSE [@ EXCEPT !.status = "failed",
                                 !.error_message = truncate(length)]]
    /\ disp' = [disp EXCEPT ![d] = AfterChannel(d)]
    /\ UNCHANGED <<wsvars, libvars>>
    /\ UNCHANGED <<now, ticks, dbvars, silences, cache, sends, dispatched, req,
                   calls, received, ops>>

\* The notifier called for the incidents of the store, by concurrent tasks:
\* the pipeline fills the store, then the notifier is called.
NotifyPayloads == {"cpu", "mem"}

NextNotify ==
    \/ Tick
    \/ \E pid \in NotifyPayloads :
          received < MaxCalls /\ dispatched = 0 /\ ReceiveWebhook(1, pid)
    \/ Ingest(1)
    \/ PipelineReturn(1)
    \/ \E d \in Slots, i \in DOMAIN incidents, e \in EventTypes : DispatchBegin(d, i, e)
    \/ \E d \in Slots : DispatchChannel(d)
    \/ \E d \in Slots, ok \in BOOLEAN : DispatchSent(d, ok)

SpecNotify == Init /\ [][NextNotify]_vars

\* ===================================================== the claims, Spec
\* The calls answered so far are two, received one after the other, with no
\* operator request made.
TwoCallsInTurn ==
    /\ Len(calls) = 2
    /\ received = 2
    /\ calls[2].after = 1
    /\ \A k \in 1..2 : calls[k].kind = "alerts"
    /\ ops = 0
    /\ silences = <<>>

\* C1: when the same payload is received twice, the second within the dedup
\* window of the first while the alert is firing, one alert row of the
\* fingerprint exists, with duplicate_count 2 and two occurrence rows; the
\* first answer reports is_duplicate false and duplicate_count 1, the second
\* is_duplicate true and duplicate_count 2.
C1_DuplicateCounted ==
    LET fingerprint == Fingerprint(Payload(calls[1].p))
        rows == {a \in Committed(alerts) : alerts[a].fp = fingerprint}
    IN  ( /\ TwoCallsInTurn
          /\ calls[2].p = calls[1].p
          /\ Payload(calls[1].p).status = "firing"
          /\ calls[2].at - calls[1].at <= dedup_window_seconds )
        => /\ calls[1].outcome = "202"
           /\ ~calls[1].is_duplicate
           /\ calls[1].duplicate_count = 1
           /\ calls[2].outcome = "202"
           /\ calls[2].is_duplicate
           /\ calls[2].duplicate_count = 2
           /\ Cardinality(rows) = 1
           /\ \A a \in rows :
                 /\ alerts[a].duplicate_count = 2
                 /\ Len(SelectSeq(occurrences, LAMBDA o : o.alert_id = a)) = 2

\* C7: when an alert has created an incident and a more severe alert of the
\* same service follows within the correlation window, the notifier has been
\* invoked twice, for incident_created and for severity_changed.
C7_NotifierInvoked ==
    LET first == Payload(calls[1].p)
        second == Payload(calls[2].p)
    IN  ( /\ TwoCallsInTurn
          /\ first.status = "firing" /\ second.status = "firing"
          /\ first.starts_at = NoTime
          /\ first.service # NoService /\ second.service = first.service
          /\ SeverityIndex(second.severity) > SeverityIndex(first.severity)
          /\ calls[2].at - calls[1].at <= correlation_window_seconds )
        => dispatched = 2

\* The claim's reading of an active window that matches a payload.
ActiveMatch(p) ==
    \E w \in DOMAIN silences :
        /\ silences[w].is_active
        /\ silences[w].starts_at <= now /\ now <= silences[w].ends_at
        /\ silences[w].matchers.service # {} => p.service \in silences[w].matchers.service
        /\ silences[w].matchers.severity # {} => p.severity \in silences[w].matchers.severity
        /\ silences[w].matchers.labels \subseteq p.labels

\* What C8 promises of the request of session r when it ends: its alert is
\* persisted as suppressed, without an incident, and the session has created
\* no incident and called no sender.
EndsSuppressed(r) ==
    /\ req[r].alert \in DOMAIN alerts'
    /\ alerts'[req[r].alert].tx = 0
    /\ alerts'[req[r].alert].status = "suppressed"
    /\ alerts'[req[r].alert].incident_id = NoId
    /\ ~\E i \in DOMAIN incidents : incidents[i].tx = r
    /\ incidents' = incidents
    /\ dispatched = 0 /\ sends = <<>>

C9_SameIncident ==
    LET first == Payload(calls[1].p)
        second == Payload(calls[2].p)
    IN  ( /\ TwoCallsInTurn
          /\ first.status = "firing" /\ second.status = "firing"
          /\ Fingerprint(first) # Fingerprint(second)
          /\ first.service # NoService /\ second.service = first.service
          /\ calls[2].at - calls[1].at <= correlation_window_seconds )
        => /\ calls[1].outcome = "202" /\ calls[2].outcome = "202"
           /\ {calls[1].alert, calls[2].alert} \subseteq Committed(alerts)
           /\ alerts[calls[1].alert].incident_id # NoId
           /\ alerts[calls[1].alert].incident_id = alerts[calls[2].alert].incident_id
           /\ Cardinality(IncidentMembers(alerts[calls[1].alert].incident_id)) = 2

C2_NoDoubleCreate ==
    \A r1, r2 \in Slots :
        ( /\ r1 # r2
          /\ req[r1].alert # NoId /\ ~req[r1].is_duplicate
          /\ req[r2].alert # NoId /\ ~req[r2].is_duplicate
          /\ alerts[req[r1].alert].status = "firing"
          /\ alerts[req[r2].alert].status = "firing" )
        => alerts[req[r1].alert].fp # alerts[req[r2].alert].fp

C6_Cooldown ==
    \A k, l \in DOMAIN sends :
        ( /\ k < l
          /\ sends[k].channel_id = sends[l].channel_id
          /\ sends[k].incident_id = sends[l].incident_id )
        => sends[l].at - sends[k].at >= notification_cooldown_seconds

\* The notifier was called again for an incident and a channel when the
\* cooldown had passed, and the calls have ended: the sender was called
\* twice, the cooldown apart.
C6_Witness ==
    /\ dispatched >= 2
    /\ \A d \in Slots : disp[d].pc = "idle"
    /\ \E k, l \in DOMAIN sends :
          /\ k < l
          /\ sends[k].channel_id = sends[l].channel_id
          /\ sends[k].incident_id = sends[l].incident_id
          /\ sends[l].at - sends[k].at = notification_cooldown_seconds

\* ------------------------------------------------------------------ C11
\* What a reader outside every request sees: the committed rows.
ReaderView ==
    [alerts |-> [a \in Committed(alerts) |-> alerts[a]],
     incidents |-> [i \in Committed(incidents) |-> incidents[i]],
     occurrences |-> SelectSeq(occurrences, LAMBDA row : row.tx = 0),
     events |-> SelectSeq(events, LAMBDA row : row.tx = 0)]

\* What session r sees: the committed rows and its own, with its updates.
SessionView(r) ==
    [alerts |-> [a \in VisibleAlerts(r) |-> [AlertRow(r, a) EXCEPT !.tx = 0]],
     incidents |-> [i \in VisibleIncidents(r) |-> [IncidentRow(r, i) EXCEPT !.tx = 0]],
     occurrences |-> [k \in 1..Len(SelectSeq(occurrences, LAMBDA row : Visible(r, row))) |->
                        [SelectSeq(occurrences, LAMBDA row : Visible(r, row))[k]
                            EXCEPT !.tx = 0]],
     events |-> [k \in 1..Len(SelectSeq(events, LAMBDA row : Visible(r, row))) |->
                   [SelectSeq(events, LAMBDA row : Visible(r, row))[k] EXCEPT !.tx = 0]]]

NoRowsOf(r) ==
    /\ \A a \in DOMAIN alerts : alerts[a].tx # r
    /\ \A i \in DOMAIN incidents : incidents[i].tx # r
    /\ \A k \in 1..Len(occurrences) : occurrences[k].tx # r
    /\ \A k \in 1..Len(events) : events[k].tx # r

\* C11: the state changes of one webhook call, for every alert of its
\* payload, become visible together or not at all.  A step of a call that
\* is not its end changes nothing a reader sees; the end of a call answered
\* 202 shows the reader everything the session of the call saw; the end of
\* a failed call shows the reader nothing new; no row of the call is left
\* behind.
C11_AtomicCommit ==
    [][\A r \in Slots :
         /\ (req[r].pc # "idle" /\ req'[r].pc # "idle" /\ req'[r] # req[r])
                => ReaderView' = ReaderView
         /\ (req[r].pc # "idle" /\ req'[r].pc = "idle")
                => /\ Len(calls') = Len(calls) + 1
                   /\ NoRowsOf(r)'
                   /\ IF calls'[Len(calls')].outcome = "202"
                      THEN ReaderView' = SessionView(r)
                      ELSE ReaderView' = ReaderView]_vars

\* A payload of two alerts whose first alert was stored as suppressed and
\* whose second alert failed: the call is answered 500 and no alert is left.
C11_Witness ==
    /\ Len(calls) = 1
    /\ received = 2
    /\ \A r \in Slots : req[r].pc = "idle"
    /\ calls[1].outcome = "500"
    /\ calls[1].p = "disk"
    /\ calls[1].rest = <<>>
    /\ calls[1].silenced = FALSE
    /\ alerts = <<>>
    /\ occurrences = <<>>

\* ------------------------------------------------------------------ C12
\* The calls that handed their alerts to the pipeline.
Ingested(k) == calls[k].outcome \in {"202", "500"}

\* C12: whatever the notification channels do, a webhook call whose alert
\* reaches the dispatch (a firing alert that is neither a duplicate nor
\* suppressed: its incident is created or promoted) is answered 202, and
\* its alert and the incident of the alert are committed.
C12_ChannelFailureTolerated ==
    \A k \in DOMAIN calls :
        ( /\ Ingested(k)
          /\ Payload(calls[k].p).status = "firing"
          /\ ~calls[k].is_duplicate
          /\ ~calls[k].silenced )
        => /\ calls[k].outcome = "202"
           /\ calls[k].alert \in Committed(alerts)
           /\ alerts[calls[k].alert].incident_id \in Committed(incidents)

\* ------------------------------------------------------------------ C13
\* C13: when the dispatch calls have ended, every active channel whose
\* filters match an incident that was dispatched has a log row of that
\* incident with the outcome of its send attempt, sent or failed, whatever
\* the outcome of the other channels was; no log row is left pending.
C13_FailureIsolated ==
    (\A d \in Slots : disp[d].pc = "idle") =>
        /\ \A l \in DOMAIN logs : logs[l].status \in {"sent", "failed"}
        /\ \A l \in DOMAIN logs : \A n \in DOMAIN Channels :
              (Channels[n].is_active /\ matches_filters(Channels[n], logs[l].incident_id))
              => \E m \in DOMAIN logs :
                    /\ logs[m].channel_id = Channels[n].id
                    /\ logs[m].incident_id = logs[l].incident_id
                    /\ \E k \in DOMAIN sends :
                          /\ sends[k].channel_id = Channels[n].id
                          /\ sends[k].incident_id = logs[l].incident_id

\* One dispatch call has ended: the sender of channel 1 failed, and the
\* sender of channel 2 was called after it for the same incident.
C13_Witness ==
    /\ dispatched = 1
    /\ \A d \in Slots : disp[d].pc = "idle"
    /\ \E l, m \in DOMAIN logs :
          /\ logs[l].channel_id = 1
          /\ logs[l].status = "failed"
          /\ logs[m].channel_id = 2
          /\ logs[m].incident_id = logs[l].incident_id
          /\ logs[m].status \in {"sent", "failed"}
    /\ Len(sends) = 2
    /\ sends[1].channel_id = 1
    /\ sends[2].channel_id = 2

\* ------------------------------------------------------------------ C14
\* C14: ingesting a duplicate writes the duplicate_count and the
\* last_received_at of the existing alert, adds one occurrence row of it and
\* returns: no other alert and no other field of the alert changes, no
\* incident, incident event or notification log is written, no dispatch is
\* made, and the call ends without touching an incident.
C14_DuplicateFrame ==
    [][\A r \in Slots :
         /\ (req[r].pc = "process_duplicate" /\ req'[r].pc # "process_duplicate")
               => LET a == req[r].existing
                  IN  /\ req'[r].pc = "respond"
                      /\ req'[r].is_duplicate
                      /\ req'[r].alert = a
                      /\ req'[r].updI = req[r].updI
                      /\ DOMAIN alerts' = DOMAIN alerts
                      /\ \A b \in DOMAIN alerts \ {a} : AlertRow(r, b)' = AlertRow(r, b)
                      /\ AlertRow(r, a)' =
                            [AlertRow(r, a) EXCEPT
                                !.duplicate_count = req[r].loaded + 1,
                                !.last_received_at = now]
                      /\ occurrences' = Append(occurrences, [alert_id |-> a, tx |-> r])
                      /\ UNCHANGED <<incidents, events, logs, sends, dispatched>>
         /\ (req[r].pc = "respond" /\ req[r].is_duplicate /\ req'[r].pc = "idle")
               => /\ incidents' = incidents
                  /\ Len(events') = Len(events)
                  /\ UNCHANGED <<logs, sends, dispatched>>]_vars

\* A duplicate of an alert that belongs to an incident has been processed.
C14_Witness ==
    \E r \in Slots :
        /\ req[r].pc = "respond"
        /\ req[r].is_duplicate
        /\ alerts[req[r].alert].incident_id \in Committed(incidents)
        /\ AlertRow(r, req[r].alert).duplicate_count = 2
        /\ Len(occurrences) = 2

\* ------------------------------------------------------------------ C15
\* The correlation outcome of the alert a call is working on: the last
\* incident event the call has written, if any.
CallEvents(r) == SelectSeq(events, LAMBDA e : e.tx = r)

Outcome(r) ==
    IF req[r].is_duplicate THEN "duplicate"
    ELSE IF req[r].silenced /\ req[r].alert # NoId THEN "suppressed"
    ELSE IF CallEvents(r) = <<>> THEN "none"
    ELSE CallEvents(r)[Len(CallEvents(r))].event_type

C16_AcknowledgeIdempotent ==
    [][ops' = ops + 1 =>
         /\ \A a \in DOMAIN alerts \cap DOMAIN alerts' :
               (alerts[a].status = "acknowledged" /\ alerts'[a].status = "acknowledged")
               => alerts'[a].acknowledged_at = alerts[a].acknowledged_at
         /\ \A i \in DOMAIN incidents \cap DOMAIN incidents' :
               (incidents[i].status = "acknowledged" /\ incidents'[i].status = "acknowledged")
               => incidents'[i].acknowledged_at = incidents[i].acknowledged_at]_vars

\* ------------------------------------------------------------------ C17
\* C17: an operator request that resolves an alert or an incident that is
\* already resolved leaves its resolved_at, and the ends_at of the alert, as
\* they were.
C17_ResolveIdempotent ==
    [][ops' = ops + 1 =>
         /\ \A a \in DOMAIN alerts \cap DOMAIN alerts' :
               (alerts[a].status = "resolved" /\ alerts'[a].status = "resolved")
               => /\ alerts'[a].resolved_at = alerts[a].resolved_at
                  /\ alerts'[a].ends_at = alerts[a].ends_at
         /\ \A i \in DOMAIN incidents \cap DOMAIN incidents' :
               (incidents[i].status = "resolved" /\ incidents'[i].status = "resolved")
               => incidents'[i].resolved_at = incidents[i].resolved_at]_vars

\* ------------------------------------------------------------------ C18
\* C18: a stored alert that is firing or acknowledged has no resolved_at; a
\* stored alert that is resolved has a resolved_at, and its ends_at is not
\* later than its resolved_at.
C18_ResolvedAtMatchesStatus ==
    \A a \in Committed(alerts) :
        /\ alerts[a].status \in {"firing", "acknowledged"}
              => alerts[a].resolved_at = NoTime
        /\ alerts[a].status = "resolved"
              => /\ alerts[a].resolved_at # NoTime
                 /\ alerts[a].ends_at # NoTime
                 /\ alerts[a].ends_at <= alerts[a].resolved_at

\* ========================================================= api/routes/ws.py
\* The websocket clients and ConnectionManager.broadcast, step by step.  The
\* tasks of one event loop interleave at their awaits only: a broadcast is
\* suspended in ws.send_text, and the endpoints of the clients connect and
\* disconnect meanwhile.
Clients == 1..MaxClients

\* ConnectionManager.connect (lines 24-27), called by websocket_endpoint
Connect(ws) ==
    /\ ws \notin connections
    /\ connections' = connections \cup {ws}
    /\ bc' = IF bc.pc = "sending" THEN [bc EXCEPT !.changed = TRUE] ELSE bc
    /\ UNCHANGED <<bcasts, appvars>>

\* ConnectionManager.disconnect (lines 29-31), called by websocket_endpoint
\* when its client has gone (lines 92-95)
Disconnect(ws) ==
    /\ ws \in connections
    /\ connections' = connections \ {ws}
    /\ bc' = IF bc.pc = "sending"
             THEN [bc EXCEPT !.changed = TRUE, !.stayed = @ \ {ws}]
             ELSE bc
    /\ UNCHANGED <<bcasts, appvars>>

\* How a broadcast call ended: it returned or raised; the clients that were
\* connected from its start to its end and got no send; the clients whose
\* send failed and that are still in the set.
Ended(result, delivered, dead, conns) ==
    [result |-> result,
     missed |-> bc.stayed \ (delivered \cup dead),
     kept |-> dead \cap conns]

\* broadcast, lines 35-41: nothing is done without clients; otherwise the
\* iteration over the set self._connections starts and the first send is
\* awaited.
BroadcastBegin ==
    /\ bc.pc = "idle"
    /\ Len(bcasts) < MaxBroadcasts
    /\ IF connections = {}
       THEN /\ bcasts' = Append(bcasts, [result |-> "returned", missed |-> {}, kept |-> {}])
            /\ bc' = bc
       ELSE /\ \E ws \in connections :
                 bc' = [pc |-> "sending", used |-> Cardinality(connections),
                        ws |-> ws, visited |-> {ws}, dead |-> {}, delivered |-> {},
                        stayed |-> connections, changed |-> FALSE]
            /\ bcasts' = bcasts
    /\ UNCHANGED <<connections, appvars>>

\* broadcast, lines 39-45: the send has returned or raised (the client is
\* noted as dead), and the iterator of the set is asked for the next
\* client.  The iterator raises RuntimeError when the size of the set is not
\* the one it started with, which leaves broadcast at once; when the set
\* was changed and has its old size, the order of the iteration is not
\* defined and the iteration may end early.  After the last client the dead
\* ones are discarded.
BroadcastSent(ok) ==
    /\ bc.pc = "sending"
    /\ LET dead == IF ok THEN bc.dead ELSE bc.dead \cup {bc.ws}
           delivered == IF ok THEN bc.delivered \cup {bc.ws} ELSE bc.delivered
           rest == connections \ bc.visited
       IN  IF Cardinality(connections) # bc.used
           THEN /\ bcasts' = Append(bcasts, Ended("raised", delivered, dead, connections))
                /\ bc' = IdleBroadcast
                /\ connections' = connections
           ELSE \/ /\ rest # {}
                   /\ \E ws \in rest :
                         bc' = [bc EXCEPT !.ws = ws, !.visited = @ \cup {ws},
                                          !.dead = dead, !.delivered = delivered]
                   /\ UNCHANGED <<bcasts, connections>>
                \/ /\ rest = {} \/ bc.changed
                   /\ connections' = connections \ dead
                   /\ bcasts' = Append(bcasts,
                          Ended("returned", delivered, dead, connections \ dead))
                   /\ bc' = IdleBroadcast
    /\ UNCHANGED appvars

NextWs ==
    \/ \E ws \in Clients : Connect(ws)
    \/ \E ws \in Clients : Disconnect(ws)
    \/ BroadcastBegin
    \/ \E ok \in BOOLEAN : BroadcastSent(ok)

SpecWs == Init /\ [][NextWs]_vars

\* ------------------------------------------------------------------ C19
\* C19: every broadcast call returns, whatever connects and disconnects
\* while one of its sends is suspended; every client that was connected
\* from its start to its end got its send; a client whose send failed is
\* no longer in the set.
C19_BroadcastSnapshot ==
    \A k \in DOMAIN bcasts :
        /\ bcasts[k].result = "returned"
        /\ bcasts[k].missed = {}
        /\ bcasts[k].kept = {}

\* ------------------------------------------------------------------ C20
\* C20: a webhook call whose payload is accepted is answered 202; a call
\* with an unknown provider or a body that is not JSON is answered 400; a
\* call whose payload fails the validation of its shape or yields no alert
\* is answered 422; a call answered 400 or 422 changes no stored state.
C20_StatusCodes ==
    [][Len(calls') = Len(calls) + 1 =>
         LET call == calls'[Len(calls')]
         IN  /\ call.kind = "alerts" => call.outcome = "202"
             /\ call.kind \in {"invalid_json", "unknown_provider"}
                   => call.outcome = "400"
             /\ call.kind \in {"schema_mismatch", "normalize_error", "no_alerts"}
                   => call.outcome = "422"
             /\ call.outcome \in {"400", "422"}
                   => UNCHANGED <<dbvars, silences, logs, cache, sends>>]_vars

\* ========================================================= core/oncall.py
\* Instants are seconds since 2025-03-30T00:00:00Z.  None is Python's None.
None == "<None>"

SecondsPerHour == 3600
SecondsPerDay == 24 * SecondsPerHour

Users == {"U1", "U2", "U3"}

\* zoneinfo: the offset of local time from UTC at the instant t.  The clocks
\* of Europe/London go forward one hour at 01:00 UTC of the first day.
utcoffset(tz, t) ==
    IF tz = "Europe/London" /\ t >= SecondsPerHour THEN SecondsPerHour ELSE 0

\* lines 96-99: a timezone that cannot be resolved falls back to UTC
ZoneInfo(key) == IF key \in {"UTC", "Europe/London"} THEN key ELSE "UTC"

\* datetime.astimezone: the wall clock reading of the instant t in tz
astimezone(t, tz) == t + utcoffset(tz, t)

\* lines 71-82: the overrides of the schedule whose interval contains now,
\* the most recently created first, limit 1
ActiveOverrides(overrides, at_time) ==
    {o \in overrides : o.starts_at <= at_time /\ o.ends_at > at_time}

LatestOverride(overrides, at_time) ==
    LET c == ActiveOverrides(overrides, at_time)
    IN  {o \in c : \A q \in c : q.created_at <= o.created_at}

\* lines 85-89 and 146-150: the user, when it exists and is active
ActiveUser(user_id, inactive) ==
    IF user_id \in Users \ inactive THEN user_id ELSE None

\* lines 101-114: the first handoff, on the wall clock of the schedule
effective_handoff(schedule) ==
    LET tz == ZoneInfo(schedule.timezone)
        effective == astimezone(schedule.effective_from, tz)
        handoff == (effective - (effective % SecondsPerDay))
                      + schedule.handoff_time[1] * SecondsPerHour
                      + schedule.handoff_time[2] * 60
    IN  IF effective > handoff THEN handoff + SecondsPerDay ELSE handoff

\* The instant whose wall clock reading in tz is w.
instant(w, tz) == CHOOSE t \in {w - SecondsPerHour, w} : astimezone(t, tz) = w

\* A variant of line 117 that takes the time elapsed between the instants.
delta_elapsed(schedule, at_time) ==
    at_time - instant(effective_handoff(schedule), ZoneInfo(schedule.timezone))

\* line 117: both datetimes carry the same tzinfo, so their difference is
\* the difference of their wall clock readings
delta(schedule, at_time) ==
    astimezone(at_time, ZoneInfo(schedule.timezone)) - effective_handoff(schedule)

\* lines 118-141
member_index(schedule, at_time) ==
    LET d == delta(schedule, at_time)
        n == Len(schedule.members)
    IN  IF d < 0 THEN 0
        ELSE IF schedule.rotation_type = "hourly"
        THEN LET interval_hours == IF schedule.rotation_interval_hours = 0 THEN 1
                                   ELSE schedule.rotation_interval_hours
             IN  (d \div (interval_hours * SecondsPerHour)) % n
        ELSE LET days_elapsed == d \div SecondsPerDay
                 interval == IF schedule.rotation_type = "daily" THEN 1
                             ELSE IF schedule.rotation_type = "weekly" THEN 7
                             ELSE IF schedule.rotation_interval_days = 0 THEN 7
                             ELSE schedule.rotation_interval_days
             IN  (days_elapsed \div interval) % n

\* lines 91-94 and 143-150: the member of the rotation, None without members
rotation(schedule, inactive, at_time) ==
    IF schedule.members = <<>> THEN None
    ELSE ActiveUser(schedule.members[member_index(schedule, at_time) + 1], inactive)

\* get_current_oncall: the users it can return (one, unless two overrides
\* were created at the same time)
get_current_oncall(schedule, overrides, inactive, at_time) ==
    IF ~schedule.is_active THEN {None}
    ELSE IF LatestOverride(overrides, at_time) # {}
    THEN {ActiveUser(o.user_id, inactive) : o \in LatestOverride(overrides, at_time)}
    ELSE {rotation(schedule, inactive, at_time)}

\* The inputs of the calls that are checked.
Schedules ==
    [is_active : BOOLEAN,
     timezone : {"UTC", "Europe/London", "Mars/Olympus"},
     rotation_type : {"hourly", "daily", "weekly", "custom"},
     rotation_interval_hours : {0, 1, 2},
     rotation_interval_days : {2},
     members : {<<>>, <<"U1", "U2", "U3">>},
     handoff_time : {<<0, 0>>, <<9, 0>>},
     effective_from : {0, 1800}]

OverridePool == {
    [user_id |-> "U2", starts_at |-> 0, ends_at |-> 3600, created_at |-> 10],
    [user_id |-> "U1", starts_at |-> 1800, ends_at |-> 36000, created_at |-> 20],
    [user_id |-> "U3", starts_at |-> 19800, ends_at |-> 2 * SecondsPerDay, created_at |-> 30]
}

AtTimes == {0, 1800, 3600, 19800, 34200, SecondsPerDay + 19800,
            3 * SecondsPerDay, 8 * SecondsPerDay}

InactiveUsers == {{}, {"U1"}, {"U3"}}

InitOnCall ==
    /\ InitApp
    /\ oc \in [schedule : Schedules, overrides : SUBSET OverridePool,
               inactive : InactiveUsers, at_time : AtTimes, result : {"pending"}]
    /\ esc = Unused
    /\ fpr = Unused
    /\ mail = Unused

\* GET /oncall/schedules/{id}/current
GetCurrentOnCall ==
    /\ oc.result = "pending"
    /\ \E user \in get_current_oncall(oc.schedule, oc.overrides, oc.inactive, oc.at_time) :
          oc' = [oc EXCEPT !.result = user]
    /\ UNCHANGED <<now, ticks, dbvars, silences, notifyvars, req, calls, received, ops,
                   wsvars, esc, fpr, mail>>

NextOnCall == GetCurrentOnCall

SpecOnCall == InitOnCall /\ [][NextOnCall]_vars

\* ------------------------------------------------------------------ C21
\* C21: the call returns the user of the most recently created override
\* whose interval [starts_at, ends_at) contains at_time when that user is
\* active, whatever the rotation says; when no override contains at_time or
\* the user of that override is not active, it returns what the rotation
\* computation gives.
C21_OverrideThenRotation ==
    (oc.result # "pending" /\ oc.schedule.is_active) =>
        LET latest == LatestOverride(oc.overrides, oc.at_time)
        IN  IF \E o \in latest : o.user_id \notin oc.inactive
            THEN \E o \in latest : oc.result = o.user_id
            ELSE oc.result = rotation(oc.schedule, oc.inactive, oc.at_time)

\* ------------------------------------------- oncall.find_escalation_policy
\* A service name and a pattern are sequences of characters.
RECURSIVE fnmatch(_, _)
\* fnmatch.fnmatch: * matches any run of characters, ? matches one
\* character, every other character matches itself
fnmatch(name, pat) ==
    IF pat = <<>> THEN name = <<>>
    ELSE IF Head(pat) = "*"
    THEN fnmatch(name, Tail(pat)) \/ (name # <<>> /\ fnmatch(Tail(name), pat))
    ELSE /\ name # <<>>
         /\ Head(pat) = "?" \/ Head(pat) = Head(name)
         /\ fnmatch(Tail(name), Tail(pat))

\* A variant of the order of the query: by creation time only.
Before_by_creation(m, q) == m.created_at < q.created_at

\* lines 228-234: order_by(priority.asc(), created_at.asc())
Before(m, q) ==
    \/ m.priority < q.priority
    \/ m.priority = q.priority /\ m.created_at < q.created_at

\* the rows of the query, in its order
all_mappings(mappings) ==
    CHOOSE s \in [1..Cardinality(mappings) -> mappings] :
        /\ \A m \in mappings : \E k \in DOMAIN s : s[k] = m
        /\ \A k, l \in DOMAIN s : k < l => Before(s[k], s[l])

RECURSIVE first_match(_, _, _)
\* lines 238-257: the policy of the first mapping, in the order of the
\* query, whose pattern matches and whose severity filter does not exclude
\* the severity
first_match(rows, service, severity) ==
    IF rows = <<>> THEN None
    ELSE LET mapping == Head(rows)
         IN  IF ~fnmatch(service, mapping.service_pattern)
             THEN first_match(Tail(rows), service, severity)
             ELSE IF /\ mapping.severity_filter # {}
                     /\ severity # None
                     /\ severity \notin mapping.severity_filter
             THEN first_match(Tail(rows), service, severity)
             ELSE mapping.escalation_policy_id

\* lines 224-225: a missing service is looked up as the name "*"
find_escalation_policy(mappings, service, severity) ==
    first_match(all_mappings(mappings),
                IF service = None \/ service = <<>> THEN <<"*">> ELSE service,
                severity)

MappingPool == {
    [service_pattern |-> <<"*">>, severity_filter |-> {},
     priority |-> 100, created_at |-> 1, escalation_policy_id |-> "default"],
    [service_pattern |-> <<"a", "p", "i", "*">>, severity_filter |-> {"critical"},
     priority |-> 10, created_at |-> 2, escalation_policy_id |-> "api-critical"],
    [service_pattern |-> <<"a", "p", "i">>, severity_filter |-> {},
     priority |-> 10, created_at |-> 3, escalation_policy_id |-> "api"],
    [service_pattern |-> <<"d", "?">>, severity_filter |-> {"critical", "high"},
     priority |-> 50, created_at |-> 4, escalation_policy_id |-> "db"],
    [service_pattern |-> <<"a", "p", "i", "*">>, severity_filter |-> {},
     priority |-> 10, created_at |-> 5, escalation_policy_id |-> "api-late"]
}

Services == {None, <<"a", "p", "i">>, <<"a", "p", "i", "-", "g", "w">>, <<"d", "b">>}

Severities == {None, "critical", "warning"}

InitEscalation ==
    /\ InitApp
    /\ esc \in [mappings : SUBSET MappingPool, service : Services,
                severity : Severities, result : {"pending"}]
    /\ oc = Unused
    /\ fpr = Unused
    /\ mail = Unused

FindEscalationPolicy ==
    /\ esc.result = "pending"
    /\ esc' = [esc EXCEPT !.result =
                  find_escalation_policy(esc.mappings, esc.service, esc.severity)]
    /\ UNCHANGED <<now, ticks, dbvars, silences, notifyvars, req, calls, received, ops,
                   wsvars, oc, fpr, mail>>

NextEscalation == FindEscalationPolicy

SpecEscalation == InitEscalation /\ [][NextEscalation]_vars

\* ------------------------------------------------------------------ C22
\* The mappings the claim speaks of, for a given service and severity.
MatchingMappings ==
    {m \in esc.mappings :
        /\ fnmatch(esc.service, m.service_pattern)
        /\ m.severity_filter # {} => esc.severity \in m.severity_filter}

\* C22: for a given service and a given severity, the call returns the
\* policy of the matching mapping with the lowest priority value and, among
\* those of equal priority, the one created first; without a matching
\* mapping it returns nothing.
C22_LowestPriorityFirstCreated ==
    (esc.result # "pending" /\ esc.service # None /\ esc.severity # None) =>
        IF MatchingMappings = {}
        THEN esc.result = None
        ELSE \E m \in MatchingMappings :
                /\ esc.result = m.escalation_policy_id
                /\ \A q \in MatchingMappings :
                      \/ m.priority < q.priority
                      \/ m.priority = q.priority /\ m.created_at <= q.created_at

\* Three mappings of the lowest priority value match the service api for a
\* critical alert, a mapping of a higher value matches too: the policy of
\* the one created first was returned.
C22_Witness ==
    /\ esc.result = "api-critical"
    /\ esc.service = <<"a", "p", "i">>
    /\ esc.severity = "critical"
    /\ Cardinality(MatchingMappings) = 4

\* ------------------------------------------------------------------ C23
\* The calls the claim speaks of: an active hourly schedule with an
\* interval of H hours and N members, no override containing at_time.
HourlyRotation ==
    /\ oc.result # "pending"
    /\ oc.schedule.is_active
    /\ oc.schedule.rotation_type = "hourly"
    /\ oc.schedule.rotation_interval_hours >= 1
    /\ oc.schedule.members # <<>>
    /\ ActiveOverrides(oc.overrides, oc.at_time) = {}

first_handoff == instant(effective_handoff(oc.schedule), ZoneInfo(oc.schedule.timezone))

Selected(index) == ActiveUser(oc.schedule.members[index + 1], oc.inactive)

LabelKeys == <<"cluster", "timestamp", "zone">>

\* x or "": a missing value and an empty one give the empty string
or_empty(x) == IF x = None THEN "" ELSE x

\* A dict of labels is a sequence of <<key, value>> pairs with distinct
\* keys, in insertion order. sorted(labels.items()): the pairs by key.
sorted_items(labels) ==
    LET keys == {labels[i][1] : i \in 1..Len(labels)}
        value(k) == labels[CHOOSE i \in 1..Len(labels) : labels[i][1] = k][2]
        present(k) == k \in keys
        sel == SelectSeq(LabelKeys, present)
    IN  [i \in 1..Len(sel) |-> <<sel[i], value(sel[i])>>]

\* lines 42-48: nothing for no labels or an empty dict, else the pairs
\* whose key is not volatile, sorted by key
is_identity_label(kv) == kv[1] \notin volatile_keys

filtered_labels(labels) ==
    IF labels = None \/ labels = <<>> THEN <<>>
    ELSE SelectSeq(sorted_items(labels), is_identity_label)

RECURSIVE dumps_items(_)
dumps_items(items) ==
    IF items = <<>> THEN <<>>
    ELSE <<items[1][1], ":", items[1][2], ",">> \o dumps_items(Tail(items))

\* json.dumps(identity, sort_keys=True): the tokens of the object, its
\* members by key (host, labels, name, service, source); the member
\* "labels" is there only when a label is left after filtering (line 47).
json_dumps(source, name, service, host, filtered) ==
    <<"{", "host", ":", host, ",">>
    \o (IF filtered = <<>> THEN <<>>
        ELSE <<"labels", ":", "{">> \o dumps_items(filtered) \o <<"}", ",">>)
    \o <<"name", ":", name, ",", "service", ":", service, ",",
         "source", ":", source, "}">>

\* sha256(canonical).hexdigest()[:16], taken as free of collisions on the
\* inputs of the model: the digest stands for the text it was computed from.
sha256_16(canonical) == <<"sha256", canonical>>

\* A variant whose identity contains the severity.
fingerprint_with_severity(source, name, service, host, severity, labels) ==
    sha256_16(json_dumps(or_empty(source), name, or_empty(service),
                         <<or_empty(host), or_empty(severity)>>,
                         filtered_labels(labels)))

\* generate_fingerprint lines 5-51, with the parameters of the source
\* (the severity is accepted and not used)
fingerprint(source, name, service, host, severity, labels) ==
    sha256_16(json_dumps(or_empty(source), name, or_empty(service),
                         or_empty(host), filtered_labels(labels)))

LabelDicts ==
    { None, <<>>,
      <<<<"cluster", "us">>>>, <<<<"cluster", "eu">>>>,
      <<<<"timestamp", "1">>>>,
      <<<<"cluster", "us">>, <<"timestamp", "1">>>>,
      <<<<"timestamp", "2">>, <<"cluster", "us">>>>,
      <<<<"zone", "a">>, <<"cluster", "us">>>>,
      <<<<"cluster", "us">>, <<"zone", "a">>>> }

FingerprintInputs ==
    [source : {"prometheus", "generic"}, name : {"HighCPU", "HighMemory"},
     service : {None, "", "api"}, host : {None, "web-01"},
     severity : {None, "critical"}, labels : LabelDicts]

InitFingerprint ==
    /\ InitApp
    /\ fpr \in [a : FingerprintInputs, b : FingerprintInputs, result : {"pending"}]
    /\ oc = Unused
    /\ esc = Unused
    /\ mail = Unused

FingerprintOf(x) ==
    fingerprint(x.source, x.name, x.service, x.host, x.severity, x.labels)

\* two calls of generate_fingerprint
GenerateFingerprints ==
    /\ fpr.result = "pending"
    /\ fpr' = [a |-> fpr.a, b |-> fpr.b, result |-> "returned",
               fingerprints |-> <<FingerprintOf(fpr.a), FingerprintOf(fpr.b)>>]
    /\ UNCHANGED <<now, ticks, dbvars, silences, notifyvars, req, calls, received, ops,
                   wsvars, oc, esc, mail>>

NextFingerprint == GenerateFingerprints

SpecFingerprint == InitFingerprint /\ [][NextFingerprint]_vars

\* ------------------------------------------------------------------ C24
\* The labels of an alert as a set of pairs, without the volatile keys.
IdentityLabels(x) ==
    IF x.labels = None THEN {}
    ELSE {x.labels[i] : i \in {j \in 1..Len(x.labels) :
                                  x.labels[j][1] \notin volatile_keys}}

Present(v) == IF v = None THEN "" ELSE v

Agree(x, y) ==
    /\ x.source = y.source
    /\ x.name = y.name
    /\ Present(x.service) = Present(y.service)
    /\ Present(x.host) = Present(y.host)
    /\ IdentityLabels(x) = IdentityLabels(y)

C25_StandaloneIncident ==
    \A r \in Slots :
        (req[r].pc = "result" /\ alerts[req[r].alert].service = NoService) =>
            LET a == req[r].alert
                i == alerts[a].incident_id
            IN  /\ i # NoId
                /\ i \in DOMAIN incidents
                /\ incidents[i].tx = r
                /\ incidents[i].status = "open"
                /\ incidents[i].severity = alerts[a].severity
                /\ \E k \in 1..Len(events) :
                      events[k] = [incident_id |-> i, event_type |-> "incident_created",
                                   tx |-> r]
                /\ \A b \in DOMAIN alerts : alerts[b].incident_id = i => b = a

\* ------------------------------------------------------------------ C26
CommittedOccurrences(a) ==
    {k \in 1..Len(occurrences) : occurrences[k].alert_id = a /\ occurrences[k].tx = 0}

\* C26: every committed alert has exactly duplicate_count committed
\* occurrence rows, one for each receipt.
C26_OccurrencePerReceipt ==
    \A a \in DOMAIN alerts :
        alerts[a].tx = 0 =>
            Cardinality(CommittedOccurrences(a)) = alerts[a].duplicate_count

MaxBatchCalls == 3

\* One session at a time: single alerts, a payload of two alerts, and the
\* operator requests on alerts and silences.
NextBatch ==
    \/ Tick
    \/ received < MaxBatchCalls /\ ReceiveWebhook(1, "cpu")
    \/ received + 2 <= MaxBatchCalls /\ ReceiveBatch(1, <<"cpu", "link">>)
    \/ Ingest(1)
    \/ NextAlert(1)
    \/ ReadResult(1)
    \/ Respond(1)
    \/ \E a \in DOMAIN alerts : AcknowledgeAlert(a)
    \/ \E m \in SilenceMatchers : CreateSilence(m)
    \/ \E w \in DOMAIN silences : DeleteSilence(w)

SpecBatch == Init /\ [][NextBatch]_vars

\* C28: every event that a finished webhook call has broadcast tells of a
\* committed change: the alert of an alert.updated event is committed with
\* at least the duplicate_count the event announced.
C28_EventsCommitted ==
    \A k \in 1..Len(calls) :
        \A n \in 1..Len(calls[k].emitted) :
            LET e == calls[k].emitted[n]
            IN  /\ e.alert_id \in DOMAIN alerts
                /\ alerts[e.alert_id].tx = 0
                /\ alerts[e.alert_id].duplicate_count >= e.duplicate_count

\* ------------------------------------------------------------------ C29
\* The log rows that a dispatch still works on.
InFlight == {disp[d].log : d \in {x \in Slots : disp[x].pc = "sending"}}

\* C29: every send attempt has exactly one NotificationLog row; the row is
\* pending only while its send is under way, and afterwards it is sent with
\* sent_at set, or failed with an error message of at most 500 characters.
C29_LogPerAttempt ==
    /\ Cardinality(DOMAIN logs) = Len(sends)
    /\ \A k \in 1..Len(sends) :
          /\ k \in DOMAIN logs
          /\ logs[k].channel_id = sends[k].channel_id
          /\ logs[k].incident_id = sends[k].incident_id
          /\ logs[k].event_type = sends[k].event_type
    /\ \A l \in DOMAIN logs :
          /\ logs[l].status = "pending" <=> l \in InFlight
          /\ logs[l].status \in {"pending", "sent", "failed"}
          /\ logs[l].status = "sent" =>
                logs[l].sent_at # NoTime /\ logs[l].error_message = NoTime
          /\ logs[l].status = "failed" =>
                /\ logs[l].sent_at = NoTime
                /\ logs[l].error_message \in 0..max_error_message

\* A dispatch has returned after one send that succeeded and one that failed
\* with an exception text longer than 500 characters.
C29_Witness ==
    /\ \A d \in Slots : disp[d].pc = "idle"
    /\ Len(sends) = 2
    /\ \E l, m \in DOMAIN logs :
          /\ logs[l].status = "sent" /\ logs[l].sent_at # NoTime
          /\ logs[m].status = "failed" /\ logs[m].error_message = max_error_message

\* ------------------------------------- scripts/email_forwarder/forwarder.py
MaxEmails == 2
MaxPolls == 2

\* What requests.post gives for a forward: the status of Solace's answer,
\* or a RequestException.
ForwardOutcomes == {"202", "500", "RequestException"}

\* forward_to_solace: True for status 202 only
forward_to_solace(outcome) == outcome = "202"

RECURSIVE ascending(_)
ascending(uids) ==
    IF uids = {} THEN <<>>
    ELSE LET u == CHOOSE x \in uids : \A y \in uids : x <= y
         IN  <<u>> \o ascending(uids \ {u})

Prefix(s, n) == SubSeq(s, 1, IF n <= Len(s) THEN n ELSE Len(s))

\* UID SEARCH UNSEEN in the selected folder, lines 196-201
unseen(box) == ascending({u \in DOMAIN box : box[u].folder = "INBOX" /\ ~box[u].seen})

InitForwarder ==
    /\ InitApp
    /\ mail \in [config : [mark_as_read : BOOLEAN, move_to_folder : BOOLEAN,
                           max_emails_per_poll : {1, 50}],
                 box : {<<>>}, forwards : {<<>>}, pc : {"idle"}, todo : {<<>>},
                 polls : {0}]
    /\ oc = Unused
    /\ esc = Unused
    /\ fpr = Unused

ForwarderFrame ==
    UNCHANGED <<now, ticks, dbvars, silences, notifyvars, req, calls, received, ops,
                wsvars, oc, esc, fpr>>

\* An email is delivered to the inbox; its subject matches the configured
\* pattern or does not.
Arrive(matches) ==
    /\ Cardinality(DOMAIN mail.box) < MaxEmails
    /\ mail' = [mail EXCEPT !.box = @ @@
                   (NewId(mail.box) :> [folder |-> "INBOX", seen |-> FALSE,
                                        matches |-> matches])]
    /\ ForwarderFrame

\* poll_once lines 270-277 with fetch_unread_emails: the folder is selected
\* for reading and writing, the first max_emails_per_poll unseen messages are
\* fetched with RFC822, a fetch that sets \Seen on the server (RFC 3501,
\* 6.4.5; only BODY.PEEK leaves the flag alone).
PollFetch ==
    /\ mail.pc = "idle"
    /\ mail.polls < MaxPolls
    /\ LET uids == Prefix(unseen(mail.box), mail.config.max_emails_per_poll)
           fetched == {uids[k] : k \in 1..Len(uids)}
       IN  mail' = [mail EXCEPT
                      !.box = [u \in DOMAIN mail.box |->
                                 IF u \in fetched THEN [mail.box[u] EXCEPT !.seen = TRUE]
                                 ELSE mail.box[u]],
                      !.todo = uids,
                      !.pc = IF uids = <<>> THEN "idle" ELSE "loop",
                      !.polls = @ + 1]
    /\ ForwarderFrame

\* mark_processed, lines 217-227
mark_processed(box, uid, config) ==
    [box EXCEPT ![uid].seen = IF config.mark_as_read THEN TRUE ELSE @,
                ![uid].folder = IF config.move_to_folder THEN "Processed" ELSE @]

\* poll_once lines 280-293: one email of the loop
ProcessEmail(outcome) ==
    /\ mail.pc = "loop"
    /\ LET uid == Head(mail.todo)
           rest == Tail(mail.todo)
           pc == IF rest = <<>> THEN "idle" ELSE "loop"
       IN  IF ~mail.box[uid].matches
           THEN /\ outcome = "202"
                /\ mail' = [mail EXCEPT !.todo = rest, !.pc = pc]
           ELSE mail' = [mail EXCEPT
                    !.forwards = Append(@, [uid |-> uid, outcome |-> outcome,
                                            poll |-> mail.polls]),
                    !.box = IF forward_to_solace(outcome)
                            THEN mark_processed(mail.box, uid, mail.config)
                            ELSE mail.box,
                    !.todo = rest, !.pc = pc]
    /\ ForwarderFrame

NextForwarder ==
    \/ \E matches \in BOOLEAN : Arrive(matches)
    \/ PollFetch
    \/ \E outcome \in ForwardOutcomes : ProcessEmail(outcome)

SpecForwarder == InitForwarder /\ [][NextForwarder]_vars

\* ------------------------------------------------------------------ C30
Accepted(uid) ==
    \E k \in 1..Len(mail.forwards) :
        mail.forwards[k].uid = uid /\ mail.forwards[k].outcome = "202"

Forwarded(uid) == \E k \in 1..Len(mail.forwards) : mail.forwards[k].uid = uid

\* C30: when a poll has ended, an email whose forward failed and that Solace
\* has not accepted is neither read nor moved: it is still unseen in the
\* inbox, where the next poll finds it.
C30_FailedForwardRetried ==
    mail.pc = "idle" =>
        \A uid \in DOMAIN mail.box :
            (Forwarded(uid) /\ ~Accepted(uid)) =>
                /\ ~mail.box[uid].seen
                /\ mail.box[uid].folder = "INBOX"
====
